---- MODULE Spec2Model ----
(***************************************************************************)
(* flora2influx: the collection scheduler (main.go), the discovery        *)
(* (device.Discover), the device session (Device.FetchReadings) and the   *)
(* two payload decoders (device.go).                                       *)
(*                                                                         *)
(* Go strings that are compared or sliced (firmware versions, payloads)   *)
(* are sequences of byte values; Readings.Temperature is kept in tenths   *)
(* of a degree (the int16 that the code divides by 10).  A nil *Readings  *)
(* is the empty sequence, a non-nil one a one-element sequence.  The gatt *)
(* transport is the environment: each of its calls and events is a        *)
(* nondeterministic choice among the outcomes its signature allows.       *)
(***************************************************************************)
EXTENDS Integers, Sequences, FiniteSets, TLC

\* ------------------------------------------------------------------ bounds

\* advertisements delivered during one scan
MaxAds == 2
\* config.Collection.DiscoveryTimeout, in abstract time units
DiscoveryTimeout == 2
\* config.Collection.DiscoveryCooldown, in abstract time units
DiscoveryCooldown == 2
\* values the ticker delivers during one cycle of discoverAndRun
MaxTicks == 1

\* --------------------------------------------------------------- constants

vHandleRealtimeData == 51
vHandleFirmwareAndBattery == 56
vHandleSensorReadings == 53

floraDeviceNames == {"Flower care", "Flower mate"}

\* names a peripheral may advertise
Names == floraDeviceNames \cup {"Other"}

\* peripheral identities (p.ID())
IDs == {"A", "B", "C"}

\* the device.ConfigMap handed to Discover: A is ignored, B has an alias,
\* C has no entry
confMap ==
  [id \in {"A", "B"} |->
     IF id = "A" THEN [Alias |-> "hidden", Ignore |-> TRUE]
                 ELSE [Alias |-> "basil", Ignore |-> FALSE]]

\* "2.6.6"
GateVersion == <<50, 46, 54, 46, 54>>

Handles == {vHandleRealtimeData, vHandleFirmwareAndBattery, vHandleSensorReadings}

\* payloads the firmware/battery characteristic may deliver:
\* empty, one byte, "2.6.6", "2.7.0", "2.10.0", "3.1.8", "10.0.0"
FwPayloads ==
  { <<>>,
    <<64>>,
    <<64, 0, 50, 46, 54, 46, 54>>,
    <<99, 0, 50, 46, 55, 46, 48>>,
    <<80, 0, 50, 46, 49, 48, 46, 48>>,
    <<100, 1, 51, 46, 49, 46, 56>>,
    <<70, 0, 49, 48, 46, 48, 46, 48>> }

\* payloads the sensor-readings characteristic may deliver: the 10-byte
\* record of the documentation, one with a negative temperature, and the
\* truncated records of 0, 1 and 9 bytes
SensPayloads ==
  { <<206, 0, 0, 144, 1, 0, 0, 40, 232, 0>>,
    <<246, 255, 7, 255, 255, 8, 9, 100, 1, 2>>,
    <<>>,
    <<206>>,
    <<206, 0, 0, 144, 1, 0, 0, 40, 232>> }

\* marks "no payload read yet" in the data local of the session
NoData == <<-1>>

\* ----------------------------------------------------------- pure helpers

Min(a, b) == IF a <= b THEN a ELSE b

\* bytes.Buffer.Next(n): drop up to n bytes
BufNext(buf, n) == SubSeq(buf, Min(n, Len(buf)) + 1, Len(buf))

\* binary.Read of a uint8: the target keeps its zero value when the buffer
\* is exhausted, and the error is dropped by the caller
ReadU8(buf) ==
  IF Len(buf) >= 1
    THEN [v |-> buf[1], rest |-> BufNext(buf, 1), ok |-> TRUE]
    ELSE [v |-> 0, rest |-> <<>>, ok |-> FALSE]

\* binary.Read of a little-endian uint16: io.ReadFull consumes what is left
\* and fails when fewer than two bytes remain; the target stays 0
ReadU16(buf) ==
  IF Len(buf) >= 2
    THEN [v |-> buf[1] + 256 * buf[2], rest |-> BufNext(buf, 2), ok |-> TRUE]
    ELSE [v |-> 0, rest |-> <<>>, ok |-> FALSE]

\* binary.Read of a little-endian int16 (two's complement)
ReadI16(buf) ==
  LET u == ReadU16(buf)
  IN  [v |-> IF u.v >= 32768 THEN u.v - 65536 ELSE u.v, rest |-> u.rest, ok |-> u.ok]

\* Go's string comparison a > b: byte-wise lexicographic
RECURSIVE StrGreater(_, _)
StrGreater(a, b) ==
  IF a = <<>> THEN FALSE
  ELSE IF b = <<>> THEN TRUE
  ELSE IF a[1] # b[1] THEN a[1] > b[1]
  ELSE StrGreater(Tail(a), Tail(b))

\* &Readings{}
ZeroReadings ==
  [FirmwareVersion |-> <<>>, BatteryLevel |-> 0, Temperature |-> 0,
   Moisture |-> 0, Light |-> 0, Conductivity |-> 0]

\* the decoder without its buf.Next(1)
decodeFirmwareDataNoSkip(data, r) ==
  LET batt == ReadU8(data)
  IN  [r EXCEPT !.BatteryLevel = batt.v, !.FirmwareVersion = batt.rest]

decodeFirmwareData(data, r) ==
  LET batt == ReadU8(data)
      rest == BufNext(batt.rest, 1)
  IN  [r EXCEPT !.BatteryLevel = batt.v, !.FirmwareVersion = rest]

\* the decoder with p.Next(1) in place of p.Next(2)
decodeSensorDataShortSkip(data, r) ==
  LET t  == ReadI16(data)
      p1 == BufNext(t.rest, 1)
      l  == ReadU16(p1)
      p2 == BufNext(l.rest, 1)
      m  == ReadU8(p2)
      c  == ReadU16(m.rest)
  IN  [r EXCEPT !.Temperature = t.v, !.Light = l.v,
                !.Moisture = m.v, !.Conductivity = c.v]

decodeSensorData(data, r) ==
  LET t  == ReadI16(data)
      p1 == BufNext(t.rest, 1)
      l  == ReadU16(p1)
      p2 == BufNext(l.rest, 2)
      m  == ReadU8(p2)
      c  == ReadU16(m.rest)
  IN  [r EXCEPT !.Temperature = t.v, !.Light = l.v,
                !.Moisture = m.v, !.Conductivity = c.v]

\* the numbers of a dotted version text, e.g. <<2, 10, 0>> for "2.10.0"
RECURSIVE ParseVersion(_, _, _)
ParseVersion(text, cur, acc) ==
  IF text = <<>> THEN Append(acc, cur)
  ELSE IF text[1] = 46 THEN ParseVersion(Tail(text), 0, Append(acc, cur))
  ELSE ParseVersion(Tail(text), cur * 10 + (text[1] - 48), acc)

\* the gate as a comparison of version numbers
NeedsRealtimeNumeric(r) ==
  StrGreater(ParseVersion(r.FirmwareVersion, 0, <<>>), ParseVersion(GateVersion, 0, <<>>))

\* the gate with >= in place of >
NeedsRealtimeFrom266(r) == ~StrGreater(GateVersion, r.FirmwareVersion)

\* the firmware gate of the session
NeedsRealtime(r) == StrGreater(r.FirmwareVersion, GateVersion)

\* the handler without its conf.Ignore test
PeripheralDiscoveredNoIgnore(roster, id, name) ==
  IF name \in floraDeviceNames
    THEN Append(roster, [id |-> id,
                         Alias |-> IF id \in DOMAIN confMap THEN confMap[id].Alias ELSE ""])
    ELSE roster

\* the handler without its test of the advertised name
PeripheralDiscoveredAnyName(roster, id, name) ==
  IF id \in DOMAIN confMap
    THEN IF confMap[id].Ignore
           THEN roster
           ELSE Append(roster, [id |-> id, Alias |-> confMap[id].Alias])
    ELSE Append(roster, [id |-> id, Alias |-> ""])

\* the body of the PeripheralDiscovered handler: the roster after an
\* advertisement of peripheral id under the given name
PeripheralDiscovered(roster, id, name) ==
  IF name \in floraDeviceNames
    THEN IF id \in DOMAIN confMap
           THEN IF confMap[id].Ignore
                  THEN roster
                  ELSE Append(roster, [id |-> id, Alias |-> confMap[id].Alias])
           ELSE Append(roster, [id |-> id, Alias |-> ""])
    ELSE roster

\* Device.GetName: the alias if there is one, the MAC address otherwise
GetName(dev) == IF dev.Alias # "" THEN dev.Alias ELSE dev.id

\* getDefaultConfig().Collection, durations in seconds
DefaultConfig ==
  [DiscoveryInterval |-> 3600, DiscoveryCooldown |-> 30,
   DiscoveryTimeout |-> 10, Interval |-> 60]

\* the Collection sections a configuration file may hold, durations in
\* seconds, around each limit of Validate
Configs ==
  [DiscoveryInterval : {59, 60, 3600}, Interval : {59, 60, 61, 3600, 3601},
   DiscoveryCooldown : {0, 1, 30}, DiscoveryTimeout : {4, 5, 10}]

\* Validate without its test of Interval against DiscoveryInterval
ValidateNoUpperLimit(c) ==
  IF c.DiscoveryInterval < 60 THEN "Discovery interval is too low"
  ELSE IF c.Interval < 60 THEN "Collection interval is too low"
  ELSE IF c.DiscoveryCooldown < 1 THEN "Discovery cooldown is too low"
  ELSE IF c.DiscoveryTimeout < 5 THEN "Discovery timeout is too low"
  ELSE "nil"

\* Configuration.Validate on a non-nil configuration: the error it returns,
\* "nil" for none
Validate(c) ==
  IF c.DiscoveryInterval < 60 THEN "Discovery interval is too low"
  ELSE IF c.Interval < 60 THEN "Collection interval is too low"
  ELSE IF c.Interval > c.DiscoveryInterval
    THEN "Collection interval is greater than the rediscovery interval"
  ELSE IF c.DiscoveryCooldown < 1 THEN "Discovery cooldown is too low"
  ELSE IF c.DiscoveryTimeout < 5 THEN "Discovery timeout is too low"
  ELSE "nil"

\* ------------------------------------------------------------------- state

VARIABLES
  mainPc,       \* main: "start" (111), "fatal" (113), "loop" (130-132), "select" (133),
                \* "cooldown" (138), "exited" (144)
  slept,        \* time units main has spent in time.Sleep since it was entered
  lastRecv,     \* what main's last receive on errChan gave: "none", "error", "closed"
  errChan,      \* the channel of the current cycle: "open" or "closed"
  influxClosed, \* influxClient.Close() was called
  signalled,    \* a SIGINT/SIGTERM has been delivered to the process
  sink,         \* the points written to influxClient, in order
  config,       \* the Configuration loadConfigFile has decoded
  wPc,          \* discoverAndRun: "none", "discover", "scan", "discovered", "sendErr",
                \* "poll", "fetch", "fetched", "wait", "returned"
  btState,      \* last state the adapter reported to the Init callback
  scanning,     \* the adapter is scanning
  scanStarted,  \* d.Scan was called during this Discover
  elapsed,      \* time units Discover has spent in time.Sleep(timeout)
  ads,          \* advertisements delivered during this scan, in order
  out,          \* Discover's out slice
  discErr,      \* the error Discover returns: "nil" or a message
  devices,      \* discoverAndRun's roster
  idx,          \* position of the range loop over devices
  fetchLog,     \* the FetchReadings calls of the current poll pass, in order
  passes,       \* how often this discoverAndRun has entered its range loop (line 54)
  ticks,        \* how many values this discoverAndRun has received from tickTimer.C
  reloadTimer,  \* "off", "armed", "fired" (a value waits in reloadTimer.C)
  tickerOn,     \* tickTimer is running
  tickPending,  \* a value waits in tickTimer.C
  fPc,          \* FetchReadings/handler position
  conn,         \* the connection of the session: "none", "open", "closing", "closed"
  done,         \* the done channel is closed
  errOut,       \* FetchReadings' errOut
  fetchOut,     \* FetchReadings' out
  rd,           \* the handler's rd
  chars,        \* the handles of the characteristics the handler found
  ops,          \* the transport calls of the session, in order, each with its outcome
  fwData,       \* the payload read from the firmware characteristic
  sensData,     \* the payload read from the sensor-readings characteristic
  readings,     \* discoverAndRun's readings (line 55)
  fetchErr      \* discoverAndRun's err (line 55)

mainVars == <<mainPc, slept, lastRecv, errChan, influxClosed, signalled, sink, config>>
discVars == <<btState, scanning, scanStarted, elapsed, ads, out, discErr>>
pollVars == <<devices, idx, fetchLog, passes, ticks>>
timerVars == <<reloadTimer, tickerOn, tickPending>>
sessVars == <<fPc, conn, done, errOut, fetchOut, rd, chars, ops, fwData, sensData>>
resVars == <<readings, fetchErr>>

vars == <<mainVars, wPc, discVars, pollVars, timerVars, sessVars, resVars>>

\* the locals of Discover before it runs
DiscInit ==
  /\ btState = "Unknown"
  /\ scanning = FALSE
  /\ scanStarted = FALSE
  /\ elapsed = 0
  /\ ads = <<>>
  /\ out = <<>>
  /\ discErr = "nil"

\* the locals of FetchReadings before it runs
SessInit ==
  /\ fPc = "idle"
  /\ conn = "none"
  /\ done = FALSE
  /\ errOut = "nil"
  /\ fetchOut = <<>>
  /\ rd = ZeroReadings
  /\ chars = {}
  /\ ops = <<>>
  /\ fwData = NoData
  /\ sensData = NoData

\* the scheduler before main's loop has run
SchedInit ==
  /\ slept = 0
  /\ lastRecv = "none"
  /\ errChan = "open"
  /\ influxClosed = FALSE
  /\ signalled = FALSE
  /\ sink = <<>>
  /\ wPc = "none"
  /\ devices = <<>>
  /\ idx = 1
  /\ fetchLog = <<>>
  /\ passes = 0
  /\ ticks = 0
  /\ reloadTimer = "off"
  /\ tickerOn = FALSE
  /\ tickPending = FALSE
  /\ readings = <<>>
  /\ fetchErr = "nil"

\* main has loaded the default configuration and enters its loop
Init ==
  /\ mainPc = "loop"
  /\ config = DefaultConfig
  /\ SchedInit
  /\ DiscInit
  /\ SessInit

\* Discover's locals are dropped when its caller moves on
ResetDiscover ==
  /\ btState' = "Unknown"
  /\ scanning' = FALSE
  /\ scanStarted' = FALSE
  /\ elapsed' = 0
  /\ ads' = <<>>
  /\ out' = <<>>
  /\ discErr' = "nil"

\* FetchReadings' locals are dropped when its caller moves on
ResetSession ==
  /\ fPc' = "idle"
  /\ conn' = "none"
  /\ done' = FALSE
  /\ errOut' = "nil"
  /\ fetchOut' = <<>>
  /\ rd' = ZeroReadings
  /\ chars' = {}
  /\ ops' = <<>>
  /\ fwData' = NoData
  /\ sensData' = NoData

\* the process is alive: after main returns every goroutine is gone
Running == mainPc # "exited"

\* -------------------------------------------------------------------- main

\* main.go 130-132: a fresh errChan and a fresh discoverAndRun goroutine
MainSpawn ==
  /\ mainPc = "loop"
  /\ mainPc' = "select"
  /\ errChan' = "open"
  /\ slept' = 0
  /\ lastRecv' = "none"
  /\ wPc' = "discover"
  /\ UNCHANGED <<influxClosed, signalled, sink, config, discVars, pollVars, timerVars, sessVars, resVars>>

\* the receive of an error that skips the cooldown sleep
MainRecvErrNoCooldown ==
  /\ mainPc = "select"
  /\ wPc = "sendErr"
  /\ mainPc' = "loop"
  /\ lastRecv' = "error"
  /\ wPc' = "returned"
  /\ UNCHANGED <<slept, errChan, influxClosed, signalled, sink, config, discVars, pollVars, timerVars, sessVars, resVars>>

\* main.go 31 and 134-138: the worker's send meets main's receive (ok = true);
\* main enters time.Sleep(DiscoveryCooldown), the worker returns
MainRecvErr ==
  /\ mainPc = "select"
  /\ wPc = "sendErr"
  /\ mainPc' = "cooldown"
  /\ slept' = 0
  /\ lastRecv' = "error"
  /\ wPc' = "returned"
  /\ UNCHANGED <<errChan, influxClosed, signalled, sink, config, discVars, pollVars, timerVars, sessVars, resVars>>

\* time passes while main sleeps
SleepTick ==
  /\ mainPc = "cooldown"
  /\ slept < DiscoveryCooldown
  /\ slept' = slept + 1
  /\ UNCHANGED <<mainPc, lastRecv, errChan, influxClosed, signalled, sink, config, wPc, discVars, pollVars,
                 timerVars, sessVars, resVars>>

\* main.go 138-140: the sleep is over, main loops
SleepDone ==
  /\ mainPc = "cooldown"
  /\ slept = DiscoveryCooldown
  /\ mainPc' = "loop"
  /\ UNCHANGED <<slept, lastRecv, errChan, influxClosed, signalled, sink, config, wPc, discVars, pollVars,
                 timerVars, sessVars, resVars>>

\* main.go 134-140: the receive on the closed channel gives ok = false
MainRecvClosed ==
  /\ mainPc = "select"
  /\ errChan = "closed"
  /\ mainPc' = "loop"
  /\ lastRecv' = "closed"
  /\ UNCHANGED <<slept, errChan, influxClosed, signalled, sink, config, wPc, discVars, pollVars, timerVars,
                 sessVars, resVars>>

\* main.go 141-144: a signal arrives while main waits in its select
MainShutdown ==
  /\ mainPc = "select"
  /\ mainPc' = "exited"
  /\ influxClosed' = TRUE
  /\ signalled' = TRUE
  /\ UNCHANGED <<slept, lastRecv, errChan, sink, config, wPc, discVars, pollVars,
                 timerVars, sessVars, resVars>>

\* main.go 128-129: shutdown is an unbuffered channel and signal.Notify never
\* blocks on its send, so a signal that arrives while main is not receiving
\* in its select (line 130-132, or the sleep of line 138) is dropped
SignalDropped ==
  /\ mainPc \in {"loop", "cooldown"}
  /\ ~signalled
  /\ signalled' = TRUE
  /\ UNCHANGED <<mainPc, slept, lastRecv, errChan, influxClosed, sink, config, wPc,
                 discVars, pollVars, timerVars, sessVars, resVars>>

\* main.go 111 and part_002 88-101: the configuration passes Validate
LoadConfigOk ==
  /\ mainPc = "start"
  /\ Validate(config) = "nil"
  /\ mainPc' = "loop"
  /\ UNCHANGED <<slept, lastRecv, errChan, influxClosed, signalled, sink, config, wPc,
                 discVars, pollVars, timerVars, sessVars, resVars>>

\* main.go 111-114 and part_002 98-100: Validate returns an error,
\* loadConfigFile returns it and main ends in logger.Fatalf
LoadConfigRejected ==
  /\ mainPc = "start"
  /\ Validate(config) # "nil"
  /\ mainPc' = "fatal"
  /\ UNCHANGED <<slept, lastRecv, errChan, influxClosed, signalled, sink, config, wPc,
                 discVars, pollVars, timerVars, sessVars, resVars>>

\* ---------------------------------------------------------------- Discover

\* device.go 56-60: gatt.NewDevice fails, Discover returns the wrapped error
NewDeviceFails ==
  /\ Running
  /\ wPc = "discover"
  /\ wPc' = "discovered"
  /\ discErr' = "Failed to create a new GATT device"
  /\ UNCHANGED <<mainVars, btState, scanning, scanStarted, elapsed, ads, out,
                 pollVars, timerVars, sessVars, resVars>>

\* device.go 56-92: the adapter exists, the handlers are registered and
\* Discover sleeps for the timeout
NewDeviceOk ==
  /\ Running
  /\ wPc = "discover"
  /\ wPc' = "scan"
  /\ UNCHANGED <<mainVars, discVars, pollVars, timerVars, sessVars, resVars>>

\* device.go 81-91: the Init callback; StatePoweredOn starts the scan, every
\* other state stops it
StateChanged(s) ==
  /\ Running
  /\ wPc = "scan"
  /\ s # btState
  /\ btState' = s
  /\ IF s = "PoweredOn"
       THEN scanning' = TRUE /\ scanStarted' = TRUE
       ELSE scanning' = FALSE /\ UNCHANGED scanStarted
  /\ UNCHANGED <<mainVars, wPc, elapsed, ads, out, discErr, pollVars, timerVars,
                 sessVars, resVars>>

\* device.go 61-80: an advertisement reaches the PeripheralDiscovered handler
Advertisement(id, name) ==
  /\ Running
  /\ wPc = "scan"
  /\ scanning
  /\ Len(ads) < MaxAds
  /\ ads' = Append(ads, [id |-> id, name |-> name])
  /\ out' = PeripheralDiscovered(out, id, name)
  /\ UNCHANGED <<mainVars, wPc, btState, scanning, scanStarted, elapsed, discErr,
                 pollVars, timerVars, sessVars, resVars>>

\* time passes while Discover sleeps (device.go 92)
ScanTick ==
  /\ Running
  /\ wPc = "scan"
  /\ elapsed < DiscoveryTimeout
  /\ elapsed' = elapsed + 1
  /\ UNCHANGED <<mainVars, wPc, btState, scanning, scanStarted, ads, out, discErr,
                 pollVars, timerVars, sessVars, resVars>>

\* a Discover that returns as soon as it has found a device
DiscoverReturnOnFirstDevice ==
  /\ Running
  /\ wPc = "scan"
  /\ elapsed = DiscoveryTimeout \/ Len(out) > 0
  /\ scanning' = FALSE
  /\ discErr' = "nil"
  /\ wPc' = "discovered"
  /\ UNCHANGED <<mainVars, btState, scanStarted, elapsed, ads, out, pollVars,
                 timerVars, sessVars, resVars>>

\* device.go 92-95: the sleep is over; StopScanning, return out, nil
DiscoverReturn ==
  /\ Running
  /\ wPc = "scan"
  /\ elapsed = DiscoveryTimeout
  /\ scanning' = FALSE
  /\ discErr' = "nil"
  /\ wPc' = "discovered"
  /\ UNCHANGED <<mainVars, btState, scanStarted, elapsed, ads, out, pollVars,
                 timerVars, sessVars, resVars>>

\* ---------------------------------------------------------- discoverAndRun

\* main.go 28-31: Discover returned an error; the worker blocks in the send
DiscoverFailed ==
  /\ Running
  /\ wPc = "discovered"
  /\ discErr # "nil"
  /\ wPc' = "sendErr"
  /\ ResetDiscover
  /\ UNCHANGED <<mainVars, pollVars, timerVars, sessVars, resVars>>

\* a worker that waits for the first tick before it polls
StartPollingWaitsForTick ==
  /\ Running
  /\ wPc = "discovered"
  /\ discErr = "nil"
  /\ devices' = out
  /\ idx' = 1
  /\ fetchLog' = <<>>
  /\ passes' = 0
  /\ ticks' = 0
  /\ reloadTimer' = "armed"
  /\ tickerOn' = TRUE
  /\ tickPending' = FALSE
  /\ wPc' = "wait"
  /\ ResetDiscover
  /\ UNCHANGED <<mainVars, sessVars, resVars>>

\* main.go 28-42: Discover returned a roster; both timers start and the
\* first poll pass begins
StartPolling ==
  /\ Running
  /\ wPc = "discovered"
  /\ discErr = "nil"
  /\ devices' = out
  /\ idx' = 1
  /\ fetchLog' = <<>>
  /\ passes' = 1
  /\ ticks' = 0
  /\ reloadTimer' = "armed"
  /\ tickerOn' = TRUE
  /\ tickPending' = FALSE
  /\ wPc' = "poll"
  /\ ResetDiscover
  /\ UNCHANGED <<mainVars, sessVars, resVars>>

\* the runtime delivers the one-shot rediscovery timer
ReloadFire ==
  /\ Running
  /\ reloadTimer = "armed"
  /\ reloadTimer' = "fired"
  /\ UNCHANGED <<mainVars, wPc, discVars, pollVars, tickerOn, tickPending, sessVars, resVars>>

\* the runtime delivers a tick; the ticker's channel holds one value
TickFire ==
  /\ Running
  /\ tickerOn
  /\ ~tickPending
  /\ ticks < MaxTicks
  /\ tickPending' = TRUE
  /\ UNCHANGED <<mainVars, wPc, discVars, pollVars, reloadTimer, tickerOn, sessVars, resVars>>

\* main.go 54: the range loop is exhausted, the worker reaches its select
PassDone ==
  /\ Running
  /\ wPc = "poll"
  /\ idx > Len(devices)
  /\ wPc' = "wait"
  /\ UNCHANGED <<mainVars, discVars, pollVars, timerVars, sessVars, resVars>>

\* a reload case that closes the channel and goes on polling
ReloadCaseKeepsPolling ==
  /\ Running
  /\ wPc = "wait"
  /\ reloadTimer = "fired"
  /\ reloadTimer' = "off"
  /\ tickerOn' = FALSE
  /\ tickPending' = FALSE
  /\ errChan' = "closed"
  /\ wPc' = "poll"
  /\ idx' = 1
  /\ fetchLog' = <<>>
  /\ passes' = passes + 1
  /\ UNCHANGED <<mainPc, slept, lastRecv, influxClosed, signalled, sink, config, discVars,
                 devices, ticks, sessVars, resVars>>

\* main.go 85-89: the rediscovery timer is due; the ticker is stopped, the
\* channel closed, and the worker returns, which drops its roster and both
\* timers with their channels
ReloadCase ==
  /\ Running
  /\ wPc = "wait"
  /\ reloadTimer = "fired"
  /\ reloadTimer' = "off"
  /\ tickerOn' = FALSE
  /\ tickPending' = FALSE
  /\ errChan' = "closed"
  /\ wPc' = "returned"
  /\ devices' = <<>>
  /\ idx' = 1
  /\ fetchLog' = <<>>
  /\ passes' = 0
  /\ ticks' = 0
  /\ UNCHANGED <<mainPc, slept, lastRecv, influxClosed, signalled, sink, config, discVars, sessVars, resVars>>

\* main.go 85, 90-92 and 42: a tick is received, the next pass begins
TickCase ==
  /\ Running
  /\ wPc = "wait"
  /\ tickPending
  /\ tickPending' = FALSE
  /\ ticks' = ticks + 1
  /\ passes' = passes + 1
  /\ idx' = 1
  /\ fetchLog' = <<>>
  /\ wPc' = "poll"
  /\ UNCHANGED <<mainVars, discVars, devices, reloadTimer, tickerOn, sessVars, resVars>>

\* ----------------------------------------------------------- FetchReadings

Op(name, ok) == [op |-> name, ok |-> ok]

\* a handler exit that leaves the connection as it is
CancelConnectionMissing(c) == c

\* p.Device().CancelConnection(p): an open connection starts to close
CancelConnection(c) == IF c = "open" THEN "closing" ELSE c

\* a return of the PeripheralConnected handler with errOut = e after the
\* transport calls log; the deferred CancelConnection (device.go 168) runs
HandlerReturn(log, e) ==
  /\ ops' = Append(log, Op("cancel", TRUE))
  /\ errOut' = e
  /\ conn' = CancelConnection(conn)
  /\ fPc' = "handlerDone"

\* main.go 54-55 and device.go 161-253: FetchReadings is called on
\* devices[idx]; the handlers are registered and Connect is issued
FetchStart ==
  /\ Running
  /\ wPc = "poll"
  /\ idx <= Len(devices)
  /\ wPc' = "fetch"
  /\ fetchLog' = Append(fetchLog, [dev |-> idx, id |-> devices[idx].id, res |-> "running"])
  /\ fPc' = "connecting"
  /\ ops' = <<Op("connect", TRUE)>>
  /\ UNCHANGED <<mainVars, discVars, devices, idx, passes, ticks, timerVars, conn, done, errOut,
                 fetchOut, rd, chars, fwData, sensData, resVars>>

\* the connection attempt fails: the transport calls neither handler, and
\* FetchReadings stays in <-done (device.go 254)
ConnectFails ==
  /\ Running
  /\ wPc = "fetch"
  /\ fPc = "connecting"
  /\ fPc' = "noConnection"
  /\ ops' = <<Op("connect", FALSE)>>
  /\ UNCHANGED <<mainVars, wPc, discVars, pollVars, timerVars, conn, done, errOut,
                 fetchOut, rd, chars, fwData, sensData, resVars>>

\* device.go 167-169: the PeripheralConnected handler starts
Connected ==
  /\ Running
  /\ wPc = "fetch"
  /\ fPc = "connecting"
  /\ conn' = "open"
  /\ fPc' = "discoverServices"
  /\ UNCHANGED <<mainVars, wPc, discVars, pollVars, timerVars, done, errOut, fetchOut,
                 rd, chars, ops, fwData, sensData, resVars>>

\* device.go 170-174: DiscoverServices fails; the handler returns without
\* setting errOut
DiscoverServicesFails ==
  /\ Running
  /\ wPc = "fetch"
  /\ fPc = "discoverServices"
  /\ HandlerReturn(Append(ops, Op("discoverServices", FALSE)), errOut)
  /\ UNCHANGED <<mainVars, wPc, discVars, pollVars, timerVars, done, fetchOut, rd,
                 chars, fwData, sensData, resVars>>

\* device.go 170-180 and 201: the services are listed; the sensor data
\* service is among them or not
DiscoverServicesOk(hasFlora) ==
  /\ Running
  /\ wPc = "fetch"
  /\ fPc = "discoverServices"
  /\ ops' = Append(ops, Op("discoverServices", TRUE))
  /\ fPc' = IF hasFlora THEN "discoverChars" ELSE "firmware"
  /\ UNCHANGED <<mainVars, wPc, discVars, pollVars, timerVars, conn, done, errOut,
                 fetchOut, rd, chars, fwData, sensData, resVars>>

\* device.go 181-186: DiscoverCharacteristics fails
DiscoverCharsFails ==
  /\ Running
  /\ wPc = "fetch"
  /\ fPc = "discoverChars"
  /\ HandlerReturn(Append(ops, Op("discoverChars", FALSE)), "transport")
  /\ UNCHANGED <<mainVars, wPc, discVars, pollVars, timerVars, done, fetchOut, rd,
                 chars, fwData, sensData, resVars>>

\* device.go 181-200: the characteristics with handles found are kept
DiscoverCharsOk(found) ==
  /\ Running
  /\ wPc = "fetch"
  /\ fPc = "discoverChars"
  /\ ops' = Append(ops, Op("discoverChars", TRUE))
  /\ chars' = found
  /\ fPc' = "firmware"
  /\ UNCHANGED <<mainVars, wPc, discVars, pollVars, timerVars, conn, done, errOut,
                 fetchOut, rd, fwData, sensData, resVars>>

\* device.go 202-206: cFirmware == nil
NoFirmwareChar ==
  /\ Running
  /\ wPc = "fetch"
  /\ fPc = "firmware"
  /\ vHandleFirmwareAndBattery \notin chars
  /\ HandlerReturn(ops, "No firmware and battery characteristic found on device")
  /\ UNCHANGED <<mainVars, wPc, discVars, pollVars, timerVars, done, fetchOut, rd,
                 chars, fwData, sensData, resVars>>

\* device.go 208-214: ReadCharacteristic(cFirmware) fails
ReadFirmwareFails ==
  /\ Running
  /\ wPc = "fetch"
  /\ fPc = "firmware"
  /\ vHandleFirmwareAndBattery \in chars
  /\ HandlerReturn(Append(ops, Op("readFirmware", FALSE)), "transport")
  /\ UNCHANGED <<mainVars, wPc, discVars, pollVars, timerVars, done, fetchOut, rd,
                 chars, fwData, sensData, resVars>>

\* device.go 208-216: the firmware/battery payload is read and decoded
ReadFirmwareOk(data) ==
  /\ Running
  /\ wPc = "fetch"
  /\ fPc = "firmware"
  /\ vHandleFirmwareAndBattery \in chars
  /\ ops' = Append(ops, Op("readFirmware", TRUE))
  /\ fwData' = data
  /\ rd' = decodeFirmwareData(data, rd)
  /\ fPc' = "gate"
  /\ UNCHANGED <<mainVars, wPc, discVars, pollVars, timerVars, conn, done, errOut,
                 fetchOut, chars, sensData, resVars>>

\* device.go 219 and 231: the firmware does not need the realtime switch
SkipRealtime ==
  /\ Running
  /\ wPc = "fetch"
  /\ fPc = "gate"
  /\ ~NeedsRealtime(rd)
  /\ fPc' = "sensor"
  /\ UNCHANGED <<mainVars, wPc, discVars, pollVars, timerVars, conn, done, errOut,
                 fetchOut, rd, chars, ops, fwData, sensData, resVars>>

\* device.go 219-224: cRealtimeData == nil
NoRealtimeChar ==
  /\ Running
  /\ wPc = "fetch"
  /\ fPc = "gate"
  /\ NeedsRealtime(rd)
  /\ vHandleRealtimeData \notin chars
  /\ HandlerReturn(ops, "Realtime data switch characteristic not found")
  /\ UNCHANGED <<mainVars, wPc, discVars, pollVars, timerVars, done, fetchOut, rd,
                 chars, fwData, sensData, resVars>>

\* device.go 225-229: the realtime-mode write fails
WriteRealtimeFails ==
  /\ Running
  /\ wPc = "fetch"
  /\ fPc = "gate"
  /\ NeedsRealtime(rd)
  /\ vHandleRealtimeData \in chars
  /\ HandlerReturn(Append(ops, Op("writeRealtime", FALSE)), "transport")
  /\ UNCHANGED <<mainVars, wPc, discVars, pollVars, timerVars, done, fetchOut, rd,
                 chars, fwData, sensData, resVars>>

\* device.go 225-231: the realtime-mode write succeeds
WriteRealtimeOk ==
  /\ Running
  /\ wPc = "fetch"
  /\ fPc = "gate"
  /\ NeedsRealtime(rd)
  /\ vHandleRealtimeData \in chars
  /\ ops' = Append(ops, Op("writeRealtime", TRUE))
  /\ fPc' = "sensor"
  /\ UNCHANGED <<mainVars, wPc, discVars, pollVars, timerVars, conn, done, errOut,
                 fetchOut, rd, chars, fwData, sensData, resVars>>

\* device.go 233-237: cReadings == nil
NoReadingsChar ==
  /\ Running
  /\ wPc = "fetch"
  /\ fPc = "sensor"
  /\ vHandleSensorReadings \notin chars
  /\ HandlerReturn(ops, "No readings characteristic discovered on device")
  /\ UNCHANGED <<mainVars, wPc, discVars, pollVars, timerVars, done, fetchOut, rd,
                 chars, fwData, sensData, resVars>>

\* device.go 239-244: ReadLongCharacteristic(cReadings) fails
ReadSensorFails ==
  /\ Running
  /\ wPc = "fetch"
  /\ fPc = "sensor"
  /\ vHandleSensorReadings \in chars
  /\ HandlerReturn(Append(ops, Op("readSensor", FALSE)), "transport")
  /\ UNCHANGED <<mainVars, wPc, discVars, pollVars, timerVars, done, fetchOut, rd,
                 chars, fwData, sensData, resVars>>

\* device.go 239-247: the sensor payload is read and decoded, out = rd, and
\* the handler returns
ReadSensorOk(data) ==
  /\ Running
  /\ wPc = "fetch"
  /\ fPc = "sensor"
  /\ vHandleSensorReadings \in chars
  /\ sensData' = data
  /\ rd' = decodeSensorData(data, rd)
  /\ fetchOut' = <<rd'>>
  /\ HandlerReturn(Append(ops, Op("readSensor", TRUE)), errOut)
  /\ UNCHANGED <<mainVars, wPc, discVars, pollVars, timerVars, done, chars, fwData, resVars>>

\* device.go 248-251: the transport reports the disconnect, done is closed
Disconnected ==
  /\ Running
  /\ wPc = "fetch"
  /\ conn = "closing"
  /\ conn' = "closed"
  /\ done' = TRUE
  /\ UNCHANGED <<mainVars, wPc, discVars, pollVars, timerVars, fPc, errOut, fetchOut,
                 rd, chars, ops, fwData, sensData, resVars>>

\* a FetchReadings that returns as soon as the handler has returned
FetchReturnWithoutDone ==
  /\ Running
  /\ wPc = "fetch"
  /\ fPc = "handlerDone"
  /\ readings' = fetchOut
  /\ fetchErr' = errOut
  /\ fetchLog' = [fetchLog EXCEPT ![Len(fetchLog)].res =
                    IF errOut # "nil" THEN "error" ELSE "ok"]
  /\ wPc' = "fetched"
  /\ UNCHANGED <<mainVars, discVars, devices, idx, passes, ticks, timerVars, sessVars>>

\* device.go 254-255 and main.go 55: <-done returns, FetchReadings returns
\* out, errOut
FetchReturn ==
  /\ Running
  /\ wPc = "fetch"
  /\ done
  /\ readings' = fetchOut
  /\ fetchErr' = errOut
  /\ fetchLog' = [fetchLog EXCEPT ![Len(fetchLog)].res =
                    IF errOut # "nil" THEN "error" ELSE "ok"]
  /\ wPc' = "fetched"
  /\ UNCHANGED <<mainVars, discVars, devices, idx, passes, ticks, timerVars, sessVars>>

\* a loop that breaks on the first failed fetch
NextDeviceBreakOnError(i, e) == IF e # "nil" THEN Len(devices) + 1 ELSE i + 1

\* main.go 56-60 and 54: a failed fetch is logged and skipped, a successful
\* one is logged; the loop moves to the next device
NextDevice(i, e) == i + 1

HandleResult ==
  /\ Running
  /\ wPc = "fetched"
  /\ idx' = NextDevice(idx, fetchErr)
  /\ wPc' = "poll"
  /\ ResetSession
  /\ readings' = <<>>
  /\ fetchErr' = "nil"
  /\ UNCHANGED <<mainVars, discVars, devices, fetchLog, passes, ticks, timerVars>>

\* ----------------------------------------------------------- specification

Next ==
  \/ MainSpawn
  \/ MainRecvErr
  \/ SleepTick
  \/ SleepDone
  \/ MainRecvClosed
  \/ MainShutdown
  \/ SignalDropped
  \/ NewDeviceFails
  \/ NewDeviceOk
  \/ \E s \in {"PoweredOn", "PoweredOff"} : StateChanged(s)
  \/ \E id \in IDs, name \in Names : Advertisement(id, name)
  \/ ScanTick
  \/ DiscoverReturn
  \/ DiscoverFailed
  \/ StartPolling
  \/ ReloadFire
  \/ TickFire
  \/ PassDone
  \/ ReloadCase
  \/ TickCase
  \/ FetchStart
  \/ ConnectFails
  \/ Connected
  \/ DiscoverServicesFails
  \/ \E hasFlora \in BOOLEAN : DiscoverServicesOk(hasFlora)
  \/ DiscoverCharsFails
  \/ \E found \in SUBSET Handles : DiscoverCharsOk(found)
  \/ NoFirmwareChar
  \/ ReadFirmwareFails
  \/ \E data \in FwPayloads : ReadFirmwareOk(data)
  \/ SkipRealtime
  \/ NoRealtimeChar
  \/ WriteRealtimeFails
  \/ WriteRealtimeOk
  \/ NoReadingsChar
  \/ ReadSensorFails
  \/ \E data \in SensPayloads : ReadSensorOk(data)
  \/ Disconnected
  \/ FetchReturn
  \/ HandleResult

Spec == Init /\ [][Next]_vars

\* main from the loading of an arbitrary configuration file to the start of
\* the first discoverAndRun
ConfigInit ==
  /\ mainPc = "start"
  /\ config \in Configs
  /\ SchedInit
  /\ DiscInit
  /\ SessInit

ConfigNext ==
  \/ LoadConfigOk
  \/ LoadConfigRejected
  \/ MainSpawn

ConfigSpec == ConfigInit /\ [][ConfigNext]_vars

\* ------------------------------------------------------------ the decoders

\* version texts a firmware/battery payload may carry:
\* "", "2.6.6", "2.7.0", "2.10.0", "3.1.8", "10.0.0"
VersionTexts ==
  { <<>>,
    <<50, 46, 54, 46, 54>>,
    <<50, 46, 55, 46, 48>>,
    <<50, 46, 49, 48, 46, 48>>,
    <<51, 46, 49, 46, 56>>,
    <<49, 48, 46, 48, 46, 48>> }

\* firmware/battery payloads handed to decodeFirmwareData: the truncated
\* ones, and every battery byte, second byte and version text of a small set
FwInputs ==
  {<<>>, <<64>>} \cup
  {<<b0, b1>> \o v : b0 \in {0, 64, 100, 255}, b1 \in {0, 1, 255}, v \in VersionTexts}

\* 10-byte payloads handed to decodeSensorData, every byte from a small set
\* that holds the bytes of the documented record and the extremes
SensInputs ==
  {<<b0, b1, b2, b3, b4, b5, b6, b7, b8, b9>> :
     b0 \in {0, 206, 246}, b1 \in {0, 127, 128, 255}, b2 \in {0, 255},
     b3 \in {0, 144}, b4 \in {1, 255}, b5 \in {0, 255}, b6 \in {0, 255},
     b7 \in {0, 40, 255}, b8 \in {232, 255}, b9 \in {0, 255}}

\* one decoder is about to run on one payload, outside any session
DecodeInit ==
  /\ mainPc = "loop"
  /\ config = DefaultConfig
  /\ SchedInit
  /\ DiscInit
  /\ conn = "none"
  /\ done = FALSE
  /\ errOut = "nil"
  /\ fetchOut = <<>>
  /\ rd = ZeroReadings
  /\ chars = {}
  /\ ops = <<>>
  /\ \/ fPc = "decodeFirmware" /\ fwData \in FwInputs /\ sensData = NoData
     \/ fPc = "decodeSensor" /\ sensData \in SensInputs /\ fwData = NoData

\* device.go 215: decodeFirmwareData(data, rd)
DecodeFirmware ==
  /\ fPc = "decodeFirmware"
  /\ rd' = decodeFirmwareData(fwData, rd)
  /\ fPc' = "firmwareDecoded"
  /\ UNCHANGED <<mainVars, wPc, discVars, pollVars, timerVars, conn, done, errOut,
                 fetchOut, chars, ops, fwData, sensData, resVars>>

\* device.go 245: decodeSensorData(data, rd)
DecodeSensor ==
  /\ fPc = "decodeSensor"
  /\ rd' = decodeSensorData(sensData, rd)
  /\ fPc' = "sensorDecoded"
  /\ UNCHANGED <<mainVars, wPc, discVars, pollVars, timerVars, conn, done, errOut,
                 fetchOut, chars, ops, fwData, sensData, resVars>>

DecodeNext ==
  \/ DecodeFirmware
  \/ DecodeSensor

DecodeSpec == DecodeInit /\ [][DecodeNext]_vars

\* ------------------------------------------------------------------ claims

\* how often the session issued the transport call name
Count(name) == Cardinality({i \in 1..Len(ops) : ops[i].op = name})

\* the positions of the transport call name in the session
Positions(name) == {i \in 1..Len(ops) : ops[i].op = name}

\* some transport call of the session failed
SomeCallFailed == \E i \in 1..Len(ops) : ~ops[i].ok

\* C1: in every poll pass FetchReadings is invoked exactly once on every
\* device of the roster, in roster order, whatever the earlier fetches
\* returned: the calls made so far are the first devices of the roster, one
\* call each, and the pass reaches its end only with a call for every device.
C1_EveryDevicePolledOnce ==
  /\ Len(fetchLog) <= Len(devices)
  /\ \A i \in 1..Len(fetchLog) :
       fetchLog[i].dev = i /\ fetchLog[i].id = devices[i].id
  /\ wPc = "poll" => Len(fetchLog) = idx - 1
  /\ wPc \in {"fetch", "fetched"} => Len(fetchLog) = idx
  /\ wPc = "wait" =>
       /\ Len(fetchLog) = Len(devices)
       /\ \A i \in 1..Len(fetchLog) : fetchLog[i].res \in {"ok", "error"}

\* a finished pass over two devices whose first fetch returned an error
C1_Witness ==
  /\ wPc = "wait"
  /\ Len(devices) = 2
  /\ Len(fetchLog) = 2
  /\ fetchLog[1].res = "error"
  /\ fetchLog[2].res = "ok"

\* C2: a connection a session established is cancelled on every exit path of
\* the handler, and FetchReadings returns only after the disconnect event:
\* once the handler has returned the connection is closing or closed, a
\* returned FetchReadings has seen done closed and its connection closed,
\* and no connection is open or closing outside a running FetchReadings.
C2_ConnectionTornDown ==
  /\ fPc = "handlerDone" =>
       /\ conn \in {"closing", "closed"}
       /\ Count("cancel") = 1
  /\ wPc = "fetched" => done /\ conn = "closed"
  /\ done => conn = "closed"
  /\ wPc # "fetch" => conn \in {"none", "closed"}

\* FetchReadings has returned from a session that ended in a failed read of
\* the sensor characteristic, and its connection is closed
C2_Witness ==
  /\ wPc = "fetched"
  /\ \E i \in 1..Len(ops) : ops[i] = Op("readSensor", FALSE)
  /\ conn = "closed"

\* C3: FetchReadings returns a non-nil error whenever a transport call of
\* the session failed, and exactly one of the returned Readings and error is
\* non-nil.
C3_ErrorOrReadings ==
  wPc = "fetched" =>
    /\ (SomeCallFailed => fetchErr # "nil")
    /\ (readings = <<>>) # (fetchErr = "nil")

\* the firmware versions of FwPayloads that are "2.6.6" or lower ("", "2.6.6",
\* and "2.10.0" and "10.0.0", which the byte-wise comparison puts below
\* "2.6.6") and those that are higher ("2.7.0", "3.1.8")
LowVersions ==
  {<<>>, <<50, 46, 54, 46, 54>>, <<50, 46, 49, 48, 46, 48>>, <<49, 48, 46, 48, 46, 48>>}
HighVersions == {<<50, 46, 55, 46, 48>>, <<51, 46, 49, 46, 56>>}

\* the firmware version has been decoded in this session
FirmwareDecoded == fwData # NoData

\* the realtime write, where issued, comes after the firmware read, and a
\* sensor read comes only after a realtime write that succeeded
WriteOrdered ==
  /\ \A w \in Positions("writeRealtime") :
       \E f \in Positions("readFirmware") : f < w /\ ops[f].ok
  /\ \A r \in Positions("readSensor") :
       \E w \in Positions("writeRealtime") : w < r /\ ops[w].ok

C5_ShortPayloadIsError ==
  wPc = "fetched" =>
    /\ (fwData # NoData /\ Len(fwData) < 2) => fetchErr # "nil"
    /\ (sensData # NoData /\ Len(sensData) < 10) => fetchErr # "nil"

\* C6: a Readings that FetchReadings returns comes from a complete
\* firmware/battery payload and a complete 10-byte sensor payload of the
\* same session, and is the decoding of the two.
C6_ReadingsComplete ==
  (wPc = "fetched" /\ readings # <<>>) =>
    /\ fwData # NoData /\ Len(fwData) >= 2
    /\ sensData # NoData /\ Len(sensData) >= 10
    /\ readings[1] = decodeSensorData(sensData, decodeFirmwareData(fwData, ZeroReadings))

\* the identities whose config says ignore = true
IgnoredIDs == {"A"}

\* C7: a device whose config has ignore = true is in no roster that
\* Discover builds or returns, however often and under whichever name it
\* advertised.
C7_IgnoredNeverInRoster ==
  /\ \A i \in 1..Len(out) : out[i].id \notin IgnoredIDs
  /\ \A i \in 1..Len(devices) : devices[i].id \notin IgnoredIDs

\* Discover has returned after the ignored device advertised twice under
\* the two sensor names
C7_Witness ==
  /\ wPc = "discovered"
  /\ discErr = "nil"
  /\ Len(ads) = 2
  /\ ads[1] = [id |-> "A", name |-> "Flower care"]
  /\ ads[2] = [id |-> "A", name |-> "Flower mate"]

\* C8: when no scan could be started, Discover returns an error and no
\* roster.
C8_NoScanIsAnError ==
  (wPc = "discovered" /\ ~scanStarted) => discErr # "nil"

\* no advertisement of the scan carried a sensor name
NoMatchingAds == \A i \in 1..Len(ads) : ads[i].name \notin floraDeviceNames

\* C9: when the scan was started, Discover returns exactly when the timeout
\* has elapsed, however many devices it has found by then, with the scan
\* stopped and no error; with no matching advertisement the roster is empty.
C9_ReturnsAtTimeout ==
  /\ (wPc = "scan" /\ elapsed < DiscoveryTimeout) => ~ENABLED DiscoverReturn
  /\ (Running /\ wPc = "scan" /\ elapsed = DiscoveryTimeout) => ENABLED DiscoverReturn
  /\ (wPc = "discovered" /\ scanStarted) =>
       /\ elapsed = DiscoveryTimeout
       /\ ~scanning
       /\ discErr = "nil"
       /\ NoMatchingAds => out = <<>>

\* Discover has returned from a started scan in which only other devices
\* advertised
C9_Witness ==
  /\ wPc = "discovered"
  /\ scanStarted
  /\ Len(ads) = MaxAds
  /\ NoMatchingAds
  /\ out = <<>>
  /\ discErr = "nil"

\* C10: after a failed discovery main starts the next one only when the
\* whole discoveryCooldown has been slept; after a cycle that ended because
\* the rediscovery was due it starts the next one without sleeping.
C10_CooldownAfterFailure ==
  /\ (mainPc = "loop" /\ lastRecv = "error") => slept = DiscoveryCooldown
  /\ (mainPc = "loop" /\ lastRecv = "closed") => slept = 0
  /\ lastRecv \in {"error", "closed"} => wPc = "returned"
  /\ mainPc = "cooldown" => lastRecv = "error"

\* main is about to start the next discovery after a failed one
C10_Witness ==
  /\ mainPc = "loop"
  /\ lastRecv = "error"
  /\ slept = DiscoveryCooldown

\* C11: once the rediscovery timer of a cycle has fired, the worker's select
\* starts no further poll pass on the old roster, also when a poll tick is
\* pending at the same time: from its select it only takes the reload case.
C11_NoPassAfterReload ==
  [][(wPc = "wait" /\ reloadTimer = "fired") => wPc' # "poll"]_vars

\* C12: a shutdown signal delivered at any moment of main's life is observed:
\* once one has been delivered, main has closed the sink and left its loop.
C12_SignalObserved ==
  signalled => (mainPc = "exited" /\ influxClosed)

\* the point the scheduler owes the sink for the reading of devices[idx]
PointOf(dev, r) ==
  [mac |-> dev.id, alias |-> dev.Alias, version |-> r.FirmwareVersion, fields |-> r]

\* C13: when discoverAndRun has handled the result of a FetchReadings call,
\* the sink has received exactly one more point, with the device's tags and
\* the reading's fields, if the call returned a Readings and no error, and
\* nothing otherwise.
C13_OneWritePerReading ==
  [][(wPc = "fetched" /\ wPc' = "poll") =>
       sink' = IF readings # <<>> /\ fetchErr = "nil"
                 THEN Append(sink, PointOf(devices[idx], readings[1]))
                 ELSE sink]_vars

\* the limits of section 6 of the specification, durations in seconds
ConfigInBounds(c) ==
  /\ c.DiscoveryInterval >= 60
  /\ c.Interval >= 60
  /\ c.Interval <= c.DiscoveryInterval
  /\ c.DiscoveryCooldown >= 1
  /\ c.DiscoveryTimeout >= 5

\* C16: Validate returns no error exactly for the configurations within the
\* limits; main ends at a rejected configuration without starting a worker,
\* and enters its loop only with a configuration within the limits.
C16_ValidateLimits ==
  /\ (Validate(config) = "nil") <=> ConfigInBounds(config)
  /\ mainPc = "fatal" => (~ConfigInBounds(config) /\ wPc = "none")
  /\ mainPc \notin {"start", "fatal"} => ConfigInBounds(config)
  /\ wPc # "none" => ConfigInBounds(config)

\* main has ended at a configuration whose only fault is an interval above
\* the discovery interval
C16_Witness ==
  /\ mainPc = "fatal"
  /\ config.DiscoveryInterval = 3600
  /\ config.Interval = 3601
  /\ config.DiscoveryCooldown >= 1
  /\ config.DiscoveryTimeout >= 5
  /\ wPc = "none"

\* a 16-bit pattern read as a two's complement number
Signed16(u) == IF u >= 32768 THEN u - 65536 ELSE u

\* the sensor record of the documentation
ExampleSensorRecord == <<206, 0, 0, 144, 1, 0, 0, 40, 232, 0>>

\* C14: for every 10-byte payload decodeSensorData yields the temperature
\* (in tenths of a degree) from bytes 0-1 as a signed little-endian number,
\* the light from bytes 3-4 and the conductivity from bytes 8-9 as unsigned
\* little-endian numbers and the moisture from byte 7; bytes 2, 5 and 6 do
\* not enter the result, and the other fields of the Readings are left as
\* they were.  The documented record gives 20.6 degrees, light 400,
\* moisture 40 and conductivity 232.
C14_SensorLayout ==
  (fPc = "sensorDecoded" /\ Len(sensData) = 10) =>
    /\ rd.Temperature = Signed16(sensData[1] + 256 * sensData[2])
    /\ rd.Light = sensData[4] + 256 * sensData[5]
    /\ rd.Moisture = sensData[8]
    /\ rd.Conductivity = sensData[9] + 256 * sensData[10]
    /\ rd.FirmwareVersion = ZeroReadings.FirmwareVersion
    /\ rd.BatteryLevel = ZeroReadings.BatteryLevel
    /\ sensData = ExampleSensorRecord =>
         /\ rd.Temperature = 206
         /\ rd.Light = 400
         /\ rd.Moisture = 40
         /\ rd.Conductivity = 232

\* a record with a negative temperature and set reserved bytes has been decoded
C14_Witness ==
  /\ fPc = "sensorDecoded"
  /\ sensData = <<246, 255, 255, 144, 1, 255, 255, 40, 232, 0>>
  /\ rd.Temperature = -10
  /\ rd.Light = 400
  /\ rd.Moisture = 40
  /\ rd.Conductivity = 232

\* the firmware/battery payload of the documentation: battery 64, "2.6.6"
ExampleFirmwarePayload == <<64, 0, 50, 46, 54, 46, 54>>

\* C15: for every payload of at least 2 bytes decodeFirmwareData yields byte
\* 0 as the battery level and the bytes from offset 2 to the end as the
\* firmware version; byte 1 does not enter the result.  The documented
\* payload gives battery 64 and version "2.6.6", which the firmware gate
\* does not send to the realtime write.
C15_FirmwareLayout ==
  (fPc = "firmwareDecoded" /\ Len(fwData) >= 2) =>
    /\ rd.BatteryLevel = fwData[1]
    /\ Len(rd.FirmwareVersion) = Len(fwData) - 2
    /\ \A i \in 1..Len(rd.FirmwareVersion) : rd.FirmwareVersion[i] = fwData[i + 2]
    /\ fwData = ExampleFirmwarePayload =>
         /\ rd.BatteryLevel = 64
         /\ rd.FirmwareVersion = <<50, 46, 54, 46, 54>>
         /\ ~NeedsRealtime(rd)

\* a payload with a set second byte has been decoded
C15_Witness ==
  /\ fPc = "firmwareDecoded"
  /\ fwData = <<100, 255, 51, 46, 49, 46, 56>>
  /\ rd.BatteryLevel = 100
  /\ rd.FirmwareVersion = <<51, 46, 49, 46, 56>>

\* the calls of the current pass that have not returned
RunningCalls == {i \in 1..Len(fetchLog) : fetchLog[i].res = "running"}

\* C17: polling within a pass is sequential: at most one FetchReadings call
\* is running, it is the last one started, and the loop is at the next
\* device only when the call before has seen the disconnect and returned, so
\* a session starts with no connection of an earlier session left.
C17_PollingSequential ==
  /\ Cardinality(RunningCalls) <= 1
  /\ \A i \in RunningCalls : i = Len(fetchLog) /\ wPc = "fetch"
  /\ wPc = "fetch" => RunningCalls = {Len(fetchLog)}
  /\ wPc = "fetched" => (fPc = "handlerDone" /\ done /\ conn = "closed")
  /\ wPc \in {"poll", "wait"} => (fPc = "idle" /\ conn = "none")
  /\ fPc = "connecting" => (conn = "none" /\ ~done)

\* the session of the second device is connecting after the call on the
\* first one has returned
C17_Witness ==
  /\ wPc = "fetch"
  /\ fPc = "connecting"
  /\ Len(fetchLog) = 2
  /\ fetchLog[1].res \in {"ok", "error"}
  /\ fetchLog[2].res = "running"

\* C18: at most one discoverAndRun is at work: main is outside its select
\* only when no worker exists or the last one has returned; a worker sends
\* one error or closes the channel, never both, and has returned once main
\* has received either; a returned worker has no scan, session or timer.
C18_OneWorker ==
  /\ (Running /\ mainPc # "select") => wPc \in {"none", "returned"}
  /\ lastRecv = "error" => (errChan = "open" /\ wPc = "returned")
  /\ lastRecv = "closed" => (errChan = "closed" /\ wPc = "returned")
  /\ errChan = "closed" => wPc = "returned"
  /\ wPc = "sendErr" => errChan = "open"
  /\ wPc = "returned" =>
       /\ ~scanning
       /\ fPc = "idle"
       /\ conn = "none"
       /\ reloadTimer = "off"
       /\ ~tickerOn

\* main is about to start the next worker after the last one closed the
\* channel and returned
C18_Witness ==
  /\ mainPc = "loop"
  /\ lastRecv = "closed"
  /\ errChan = "closed"
  /\ wPc = "returned"

\* a characteristic the session needs was not discovered
RequiredCharMissing ==
  \/ vHandleFirmwareAndBattery \notin chars
  \/ vHandleSensorReadings \notin chars
  \/ (FirmwareDecoded /\ rd.FirmwareVersion \in HighVersions
        /\ vHandleRealtimeData \notin chars)

\* C19: a session in which the firmware/battery or the sensor-readings
\* characteristic was not discovered, or the realtime characteristic where
\* the firmware requires it, returns an error and no Readings, has issued no
\* sensor read and no transport call twice.
C19_MissingCharIsFatal ==
  (wPc = "fetched" /\ RequiredCharMissing) =>
    /\ fetchErr # "nil"
    /\ readings = <<>>
    /\ Count("readSensor") = 0
    /\ \A i, j \in 1..Len(ops) : ops[i].op = ops[j].op => i = j

\* a > b in the byte-wise lexicographic order: at the first position where
\* the two differ a has the greater byte, or b has ended there
LexGreater(a, b) ==
  \E k \in 1..Len(a) :
    /\ \A j \in 1..(k - 1) : j <= Len(b) /\ a[j] = b[j]
    /\ k > Len(b) \/ a[k] > b[k]

\* the versions the claim names: "2.7.0" and "3.1.8" trigger the write,
\* "2.10.0" and "10.0.0" do not
NamedTriggering == {<<50, 46, 55, 46, 48>>, <<51, 46, 49, 46, 56>>}
NamedNotTriggering == {<<50, 46, 49, 48, 46, 48>>, <<49, 48, 46, 48, 46, 48>>}

\* the session is past the firmware gate
PastGate == FirmwareDecoded /\ fPc \in {"sensor", "handlerDone"}

FetchProgress ==
  \/ ConnectFails
  \/ Connected
  \/ DiscoverServicesFails
  \/ \E hasFlora \in BOOLEAN : DiscoverServicesOk(hasFlora)
  \/ DiscoverCharsFails
  \/ \E found \in SUBSET Handles : DiscoverCharsOk(found)
  \/ NoFirmwareChar
  \/ ReadFirmwareFails
  \/ \E data \in FwPayloads : ReadFirmwareOk(data)
  \/ SkipRealtime
  \/ NoRealtimeChar
  \/ WriteRealtimeFails
  \/ WriteRealtimeOk
  \/ NoReadingsChar
  \/ ReadSensorFails
  \/ \E data \in SensPayloads : ReadSensorOk(data)
  \/ Disconnected
  \/ FetchReturn

\* C21: every FetchReadings call returns to its caller under every transport
\* behaviour, a failed connection attempt included: while the process lives,
\* a call that has not returned always has a step by which it moves on, so
\* that no poll pass is blocked for good by one device
C21_FetchNeverBlocked ==
  (Running /\ wPc = "fetch") => ENABLED FetchProgress


\* an advertisement that the claim says makes a roster entry
Wanted(a) ==
  /\ a.name \in {"Flower care", "Flower mate"}
  /\ ~(a.id \in DOMAIN confMap /\ confMap[a.id].Ignore)

\* the advertisements of the scan that make a roster entry, in order of arrival
WantedAds == SelectSeq(ads, Wanted)

\* the alias configured for an identity, "" without a config entry
ConfiguredAlias(id) == IF id \in DOMAIN confMap THEN confMap[id].Alias ELSE ""

\* C22: the roster Discover builds and returns is exactly the advertisements
\* of the scan with a known sensor name and an identity not configured as
\* ignored, in order of arrival; an entry carries the configured alias (none
\* without a config entry), and GetName gives the alias when there is one and
\* the identity otherwise.
C22_RosterIsFilteredAds ==
  /\ Len(out) = Len(WantedAds)
  /\ \A i \in 1..Len(out) :
       /\ out[i].id = WantedAds[i].id
       /\ out[i].Alias = ConfiguredAlias(out[i].id)
       /\ GetName(out[i]) = IF ConfiguredAlias(out[i].id) # ""
                              THEN ConfiguredAlias(out[i].id)
                              ELSE out[i].id

\* Discover has returned the roster of a scan in which the device without a
\* config entry advertised before the device with an alias
C22_Witness ==
  /\ wPc = "discovered"
  /\ discErr = "nil"
  /\ Len(ads) = 2
  /\ ads[1] = [id |-> "C", name |-> "Flower mate"]
  /\ ads[2] = [id |-> "B", name |-> "Flower care"]
  /\ Len(out) = 2
  /\ GetName(out[1]) = "C"
  /\ GetName(out[2]) = "basil"


\* the worker is in a cycle: discovery succeeded and it has not returned
InCycle == wPc \in {"poll", "fetch", "fetched", "wait"}

\* C23: after a successful discovery the first poll pass starts at once, with
\* no tick delivered yet; every later pass of the cycle starts on the receipt
\* of one tick, so a cycle that has received k ticks has started exactly k+1
\* passes.
C23_FirstPassThenOnePerTick ==
  /\ [](InCycle => passes = ticks + 1)
  /\ [][(wPc = "discovered" /\ discErr = "nil" /\ wPc' # wPc)
          => (wPc' = "poll" /\ idx' = 1 /\ devices' = out
              /\ passes' = 1 /\ ticks' = 0 /\ ~tickPending')]_vars
  /\ [][(InCycle /\ passes' > passes)
          => (wPc = "wait" /\ tickPending /\ ticks' = ticks + 1
              /\ passes' = passes + 1 /\ wPc' = "poll" /\ idx' = 1)]_vars

\* a cycle over a roster of one device has received one tick and finished
\* its second pass
C23_Witness ==
  /\ wPc = "wait"
  /\ Len(devices) = 1
  /\ ticks = 1
  /\ passes = 2
  /\ Len(fetchLog) = 1

====
